---------------------------- MODULE Spec2Model ----------------------------
(***************************************************************************)
(* A model of save_naver_blog_category_to_pdf.py: the run orchestrator     *)
(* (main), the ledger file index.txt, the two PDF savers and the category  *)
(* enumerator.                                                             *)
(*                                                                         *)
(* Text is modelled as a sequence of tokens.  A token is one character     *)
(* that the code's regular expressions look at (a digit, a tab, a line     *)
(* break, a blank, a separator) or an opaque chunk of other characters.    *)
(* "Naver" stands for the platform name and "Login" for the login word of  *)
(* the page titles, "Blog" for the word that ends a post's page title.     *)
(***************************************************************************)
EXTENDS Integers, Sequences, FiniteSets, TLC

(* ------------------------------ bounds -------------------------------- *)
\* longest URL list read from the URL file
MaxUrls == 2
\* number of runs of the program over the same output directory
MaxRuns == 2
\* number of listing pages that carry posts
MaxPages == 2

(* -------------------------- program constants ------------------------- *)
\* r"/(\d{6,})$": the shortest trailing identifier
MinTailDigits == 6
\* s[:180]
MaxFileName == 180
\* for _ in range(40)
PollLimit == 40

(* ------------------------------- text --------------------------------- *)
TAB == "\t"
NL == "\n"
SP == " "
Digits == {"0", "1", "2", "3", "4", "5", "6", "7", "8", "9"}
\* what \s and str.strip() take for white space
White == {SP, TAB, NL}
\* Python's None, and the empty string a missing key is written as
None == << >>

Min(S) == CHOOSE x \in S : \A y \in S : x <= y

\* str.isdigit(): not empty, digits only
IsDigit(s) == s # << >> /\ \A n \in 1..Len(s) : s[n] \in Digits

\* x in s, for a one-token x
Has(s, x) == \E n \in 1..Len(s) : s[n] = x

\* the end of the longest run of digits that starts at position n
RECURSIVE DigitRunEnd(_, _)
DigitRunEnd(s, n) ==
  IF n + 1 <= Len(s) /\ s[n + 1] \in Digits THEN DigitRunEnd(s, n + 1) ELSE n

\* the number of digits s ends with
RECURSIVE TailDigits(_)
TailDigits(s) ==
  IF s # << >> /\ s[Len(s)] \in Digits
  THEN 1 + TailDigits(SubSeq(s, 1, Len(s) - 1))
  ELSE 0

\* str.strip()
RECURSIVE LStrip(_)
LStrip(s) == IF s # << >> /\ Head(s) \in White THEN LStrip(Tail(s)) ELSE s
RECURSIVE RStrip(_)
RStrip(s) ==
  IF s # << >> /\ s[Len(s)] \in White THEN RStrip(SubSeq(s, 1, Len(s) - 1)) ELSE s
Strip(s) == LStrip(RStrip(s))

\* str.split(sep): the fields between the separators, at least one
RECURSIVE Split(_, _)
Split(s, sep) ==
  LET hits == {n \in 1..Len(s) : s[n] = sep} IN
  IF hits = {} THEN << s >>
  ELSE << SubSeq(s, 1, Min(hits) - 1) >> \o Split(SubSeq(s, Min(hits) + 1, Len(s)), sep)

\* str.splitlines(): the lines, the line break that ends the text opening no line
RECURSIVE SplitLines(_)
SplitLines(s) ==
  LET hits == {n \in 1..Len(s) : s[n] = NL} IN
  IF s = << >> THEN << >>
  ELSE IF hits = {} THEN << s >>
  ELSE << SubSeq(s, 1, Min(hits) - 1) >> \o SplitLines(SubSeq(s, Min(hits) + 1, Len(s)))

\* re.sub(r"\s+", " ", s)
RECURSIVE CollapseWhite(_)
CollapseWhite(s) ==
  IF s = << >> THEN << >>
  ELSE IF Head(s) \in White
  THEN << SP >> \o CollapseWhite(LStrip(s))
  ELSE << Head(s) >> \o CollapseWhite(Tail(s))

\* re.sub(r"\s{2,}", " ", t): a single white character stays as it is
RECURSIVE CollapseRuns(_)
CollapseRuns(s) ==
  IF s = << >> THEN << >>
  ELSE IF Head(s) \in White /\ Len(s) >= 2 /\ s[2] \in White
  THEN << SP >> \o CollapseRuns(LStrip(s))
  ELSE << Head(s) >> \o CollapseRuns(Tail(s))

\* the characters safe_filename replaces
Illegal == {"\\", "/", ":", "*", "?", "\"", "<", ">", "|"}

safe_filename(s) ==
  LET a == [n \in 1..Len(s) |-> IF s[n] \in Illegal THEN "_" ELSE s[n]]
      b == Strip(CollapseWhite(a))
  IN  IF Len(b) > MaxFileName THEN SubSeq(b, 1, MaxFileName) ELSE b

\* the tail r"\s*[:\-_]\s*Naver\s*Blog\s*$" of t, as the position it starts at
\* (0: no such tail).  The leftmost start is the one re.sub takes.
TitleTailStart(t) ==
  LET r1 == RStrip(t)
      okBlog == r1 # << >> /\ r1[Len(r1)] = "Blog"
      r2 == IF okBlog THEN RStrip(SubSeq(r1, 1, Len(r1) - 1)) ELSE << >>
      okNaver == r2 # << >> /\ r2[Len(r2)] = "Naver"
      r3 == IF okNaver THEN RStrip(SubSeq(r2, 1, Len(r2) - 1)) ELSE << >>
      okSep == r3 # << >> /\ r3[Len(r3)] \in {":", "-", "_"}
      r4 == IF okSep THEN RStrip(SubSeq(r3, 1, Len(r3) - 1)) ELSE << >>
  IN  IF okSep THEN Len(r4) + 1 ELSE 0

clean_title(title) ==
  LET t == Strip(title)
      n == TitleTailStart(t)
      cut == IF n > 0 THEN SubSeq(t, 1, n - 1) ELSE t
  IN  CollapseRuns(cut)

(* ------------------------------- URLs --------------------------------- *)
canonical_key_from_url(u) ==
  LET hits == {n \in 1..(Len(u) - 1) : u[n] = "logNo=" /\ u[n + 1] \in Digits}
      t == TailDigits(u)
  IN  IF hits # {}
      THEN SubSeq(u, Min(hits) + 1, DigitRunEnd(u, Min(hits) + 1))
      ELSE IF t >= MinTailDigits /\ Len(u) > t /\ u[Len(u) - t] = "/"
      THEN SubSeq(u, Len(u) - t + 1, Len(u))
      ELSE None


\* the end of the longest run of tokens other than x that starts at position n
RECURSIVE RunEndBefore(_, _, _)
RunEndBefore(s, n, x) ==
  IF n + 1 <= Len(s) /\ s[n + 1] # x THEN RunEndBefore(s, n + 1, x) ELSE n

\* r"[?&]blogId=([^&]+)": the places of the value's first token
BlogIdParamHits(u) ==
  {n \in 3..Len(u) : u[n - 2] \in {"?", "&"} /\ u[n - 1] = "blogId=" /\ u[n] # "&"}

\* r"m\.blog\.naver\.com/([^/]+)/(\d+)": the places of the owner's first token
MobileHits(u) ==
  {n \in 3..Len(u) :
     /\ u[n - 2] = "m.blog.naver.com" /\ u[n - 1] = "/" /\ u[n] # "/"
     /\ LET e == RunEndBefore(u, n, "/") IN
          e + 2 <= Len(u) /\ u[e + 1] = "/" /\ u[e + 2] \in Digits}

\* << blog_id, log_no >>
parse_blog_id_logno(u) ==
  LET p == BlogIdParamHits(u)
      m == MobileHits(u)
      key == canonical_key_from_url(u)
  IN  IF p # {}
      THEN << SubSeq(u, Min(p), RunEndBefore(u, Min(p), "&")), key >>
      ELSE IF m # {}
      THEN LET e == RunEndBefore(u, Min(m), "/") IN
           << SubSeq(u, Min(m), e), SubSeq(u, e + 2, DigitRunEnd(u, e + 2)) >>
      ELSE << None, key >>

\* the post keys of the model
K1 == << "1", "0", "0", "0", "0", "1" >>
K2 == << "1", "0", "0", "0", "0", "2" >>
K3 == << "1", "0", "0", "0", "0", "3" >>

\* f"https://blog.naver.com/PostView.naver?blogId={blog_id}&logNo={log_no}"
ViewUrl(blog_id, log_no) ==
  << "https://", "blog.naver.com", "/", "PostView.naver", "?", "blogId=" >>
    \o blog_id \o << "&", "logNo=" >> \o log_no

\* f"https://m.blog.naver.com/{blog_id}/{log_no}"
MobileUrl(blog_id, log_no) ==
  << "https://", "m.blog.naver.com", "/" >> \o blog_id \o << "/" >> \o log_no

Owner == << "b" >>
\* a URL of the blog that names no post
HomeUrl == << "https://", "blog.naver.com", "/" >> \o Owner

\* the lines a URL file is made of: two addresses of post K1, one of post K2, an
\* address without a post identifier
UrlLines == {ViewUrl(Owner, K1), MobileUrl(Owner, K1), ViewUrl(Owner, K2), HomeUrl}

RECURSIVE SeqsUpTo(_, _)
SeqsUpTo(S, n) ==
  IF n = 0 THEN {<< >>}
  ELSE LET shorter == SeqsUpTo(S, n - 1) IN
       shorter \cup {Append(q, x) : q \in {r \in shorter : Len(r) = n - 1}, x \in S}

(* --------------------------- the ledger file -------------------------- *)
\* the key one line of index.txt gives (None: a blank line, a comment, no key)
KeyOfLine(line) ==
  LET ln == Strip(line) IN
  IF ln = << >> \/ Head(ln) = "#" THEN None
  ELSE LET k == Strip(Split(ln, TAB)[1]) IN
       IF IsDigit(k) THEN k ELSE canonical_key_from_url(k)

load_done_keys_from_index_NoDigitKeys(text) ==
  LET lines == SplitLines(text) IN
  {canonical_key_from_url(Strip(Split(lines[n], TAB)[1])) : n \in 1..Len(lines)} \ {None}

\* the text of a file that does not exist is the empty text
load_done_keys_from_index(text) ==
  LET lines == SplitLines(text) IN
  {KeyOfLine(lines[n]) : n \in 1..Len(lines)} \ {None}

append_index_row_Truncating(text, log_no, date_str, title, filename, url) ==
  log_no \o << TAB >> \o date_str \o << TAB >> \o title \o << TAB >> \o filename
    \o << TAB >> \o url \o << NL >>

append_index_row(text, log_no, date_str, title, filename, url) ==
  text \o log_no \o << TAB >> \o date_str \o << TAB >> \o title \o << TAB >> \o filename
    \o << TAB >> \o url \o << NL >>

\* the rows of a ledger text: the fields of every line that is no comment
LedgerRows(text) ==
  LET lines == SplitLines(text)
      keep == {n \in 1..Len(lines) : Strip(lines[n]) # << >> /\ Head(Strip(lines[n])) # "#"}
  IN  {Split(lines[n], TAB) : n \in keep}

(* ------------------------- the output directory ----------------------- *)
\* A directory is the sequence of its PDF files, oldest modification first.  A
\* file is [name, page, complete]: page is the URL of the page it is a print of.
Names(dir) == {dir[n].name : n \in 1..Len(dir)}

Without(dir, name) == SelectSeq(dir, LAMBDA f : f.name # name)

\* open(fpath, "wb"): the file is created or cut to nothing, and is the newest
OpenForWrite(dir, name, url) ==
  Append(Without(dir, name), [name |-> name, page |-> url, complete |-> FALSE])

\* the file is closed with all its bytes
CloseWritten(dir, name) ==
  [n \in 1..Len(dir) |->
     IF dir[n].name = name THEN [dir[n] EXCEPT !.complete = TRUE] ELSE dir[n]]

\* Path.rename: the file keeps its modification time and takes the place of a
\* file of the new name
Rename(dir, old, new) ==
  LET rest == Without(dir, new) IN
  [n \in 1..Len(rest) |->
     IF rest[n].name = old THEN [rest[n] EXCEPT !.name = new] ELSE rest[n]]

(* ------------------------------ the pages ----------------------------- *)
\* A page is [url, title, og]: the URL it was loaded from, its document title and
\* the content of its og:title metadata (empty: none).
NoPage == [url |-> << >>, title |-> << >>, og |-> << >>]

\* the post page behind a URL: posts K1 and K2 carry the same title, one in the
\* document title and one in the metadata
PostPage(u) ==
  LET key == canonical_key_from_url(u) IN
  IF key = K1
  THEN [url |-> u, title |-> << "A", SP, ":", SP, "Naver", SP, "Blog" >>, og |-> << >>]
  ELSE IF key = None
  THEN [url |-> u, title |-> << "Naver", SP, "Blog" >>, og |-> << >>]
  ELSE [url |-> u, title |-> << "Naver", SP, "Blog" >>, og |-> << "A" >>]

\* what the browser may show instead of the post: the platform's login page, or a
\* page whose title holds the login word alone
LoginPages(u) ==
  {[url |-> u, title |-> << "Naver", SP, "Login" >>, og |-> << >>],
   [url |-> u, title |-> << "Login" >>, og |-> << "A" >>]}

\* what extract_title_and_date returns for the date of a page, as
\* << date_norm, used_upload_today >>: the posts carry a date, and the page that
\* is no post carries none, so that the day of the run stands in
DateResult(page) ==
  IF canonical_key_from_url(page.url) # None
  THEN << << "2025-09-07" >>, FALSE >>
  ELSE << << "2026-11-03" >>, TRUE >>

\* the title part of extract_title_and_date: og:title, else the document title
ExtractedTitle(page) ==
  LET raw == IF Strip(page.og) # << >> THEN Strip(page.og) ELSE Strip(page.title)
      t == clean_title(raw)
  IN  IF t = << >> THEN << "post" >> ELSE t

\* date_for_name
DateForName(d) == IF d[2] THEN d[1] \o << "(upload)" >> ELSE d[1]

\* fpath: the base name, with the post's number when the base name is taken
OutputName(dir, url, title, date_for_name) ==
  LET base == date_for_name \o << "_" >> \o safe_filename(title)
      log_no == parse_blog_id_logno(url)[2]
      suffix == IF log_no # None THEN << "_" >> \o log_no ELSE << >>
  IN  IF (base \o << ".pdf" >>) \in Names(dir)
      THEN base \o suffix \o << ".pdf" >>
      ELSE base \o << ".pdf" >>

\* title_check
IsLoginTitle_NeedsBoth(title_check) ==
  Has(title_check, "Naver") /\ Has(title_check, "Login")

IsLoginTitle(title_check) ==
  \/ Has(title_check, "Naver") /\ Has(title_check, "Login")
  \/ Has(title_check, "Login")

\* the name Chrome gives the file of a kiosk print: the document's title
BrowserFileName(page) == << "chrome:" >> \o safe_filename(page.title) \o << ".pdf" >>

(* --------------------------- the URL list ----------------------------- *)
RECURSIVE DedupUrls_ByText(_, _)
DedupUrls_ByText(list, seen) ==
  IF list = << >> THEN << >>
  ELSE IF Head(list) \in seen
  THEN DedupUrls_ByText(Tail(list), seen)
  ELSE << Head(list) >> \o DedupUrls_ByText(Tail(list), seen \cup {Head(list)})

\* main, "seen"/"tmp": the first URL of every key, a URL without key by its text
RECURSIVE DedupUrls(_, _)
DedupUrls(list, seen) ==
  IF list = << >> THEN << >>
  ELSE LET u == Head(list)
           key == canonical_key_from_url(u)
           k == IF key # None THEN key ELSE u
       IN  IF k \in seen
           THEN DedupUrls(Tail(list), seen)
           ELSE << u >> \o DedupUrls(Tail(list), seen \cup {k})

FilterDone_KeepAll(list, keys) == list

FilterDone_KeyedOnly(list, keys) ==
  SelectSeq(list, LAMBDA u : canonical_key_from_url(u) # None
                               /\ canonical_key_from_url(u) \notin keys)

\* [u for u in tmp if (canonical_key_from_url(u) not in done_keys)]
FilterDone(list, keys) ==
  SelectSeq(list, LAMBDA u : canonical_key_from_url(u) \notin keys)

(* ------------------------- the listing endpoint ----------------------- *)
\* A listing is [pages, repeat]: the post lists of pages 1..Len(pages), each the
\* logNo of its entries (None: an entry without one); a later page is empty, or,
\* with repeat, the last page again.
NoListing == [pages |-> << >>, repeat |-> FALSE]

PageLists == {<< K1 >>, << K2, K3 >>, << K1, K2 >>, << K3, K3 >>, << None, K2 >>}

Listings == [pages : SeqsUpTo(PageLists, MaxPages), repeat : BOOLEAN]

\* j.get("postList", []) of the body served for page n
PostList(listing, n) ==
  IF n <= Len(listing.pages) THEN listing.pages[n]
  ELSE IF listing.repeat /\ listing.pages # << >>
  THEN listing.pages[Len(listing.pages)]
  ELSE << >>

RECURSIVE AddPosts_NoSeen(_, _, _, _)
AddPosts_NoSeen(posts, seen, out, added) ==
  IF posts = << >> THEN << seen, out, added >>
  ELSE IF Head(posts) = None
  THEN AddPosts_NoSeen(Tail(posts), seen, out, added)
  ELSE AddPosts_NoSeen(Tail(posts), seen \cup {Head(posts)},
                       Append(out, ViewUrl(Owner, Head(posts))), added + 1)

\* the for loop over one page: << seen, out, added >>
RECURSIVE AddPosts(_, _, _, _)
AddPosts(posts, seen, out, added) ==
  IF posts = << >> THEN << seen, out, added >>
  ELSE LET log_no == Head(posts) IN
       IF log_no = None \/ log_no \in seen
       THEN AddPosts(Tail(posts), seen, out, added)
       ELSE AddPosts(Tail(posts), seen \cup {log_no},
                     Append(out, ViewUrl(Owner, log_no)), added + 1)

\* the while loop from page n on, every body decoding: << out, last page asked >>
RECURSIVE EnumerateFrom(_, _, _, _)
EnumerateFrom(listing, n, seen, out) ==
  LET posts == PostList(listing, n)
      got == AddPosts(posts, seen, out, 0)
  IN  IF posts = << >> THEN << out, n >>
      ELSE IF got[3] = 0 THEN << out, n >>
      ELSE EnumerateFrom(listing, n + 1, got[1], got[2])

\* the list enumerate_category_via_api returns
enumerate_category_via_api(listing) == EnumerateFrom(listing, 1, {}, << >>)[1]

(* ------------------------------ the state ----------------------------- *)
VARIABLES
  method,        \* args.method: "devtools" or "kiosk"
  mode,          \* "urls": --urls-file given; "category": --blog-id given alone
  input,         \* the lines of the URL file
  listing,       \* the listing endpoint of the category
  ledger,        \* the text of index.txt
  out_dir,       \* the PDF files of the output directory
  run,           \* the number of this run of the program
  pc,            \* where main is
  done_keys,     \* main's done_keys
  url_list,      \* main's url_list, filtered
  i,             \* the loop index of main, from 1
  page,          \* the page the browser shows
  title,         \* the saver's title
  date_for_name, \* the saver's date_for_name
  fpath,         \* the saver's fpath (the file's name)
  pending,       \* kiosk: the pages Chrome was asked to print and has not saved
  polls,         \* kiosk: the iterations the polling loop has left
  loaded,        \* history: done_keys as loaded when the run started
  navigated,     \* history: per item of this run, the URL asked for and the title met
  outcome,       \* history: per item of this run, "saved", "skipped" or "failed"
  appendLog,     \* history: the items of this run append_index_row was called for
  wrote,         \* history: the items of this run that opened a file or asked a print
  written,       \* history: << page URL, file name >> of every PDF written in full
  prev,          \* history: how the run before ended
  e_pc,          \* enumerate_category_via_api: where it is
  e_page,        \* its page
  e_seen,        \* its seen
  e_out,         \* its out
  e_reqs,        \* history: the pages it asked the endpoint for
  f_pc,          \* a function called on its own: "idle", "call" or "done"
  f_arg,         \* its arguments
  f_res          \* what it returned

mainVars == << run, pc, done_keys, url_list, i >>
saverVars == << page, title, date_for_name, fpath, polls >>
histVars == << loaded, navigated, outcome, appendLog, wrote, prev >>
argVars == << method, mode, input, listing >>
enumVars == << e_pc, e_page, e_seen, e_out, e_reqs >>
funVars == << f_pc, f_arg, f_res >>
vars == << argVars, ledger, out_dir, mainVars, saverVars, pending, histVars, written,
           enumVars, funVars >>

(* ------------------------- the states at start ------------------------ *)
PdfName(date, t) == date \o << "_" >> \o t \o << ".pdf" >>

\* What a run may find: nothing; a ledger with a comment, a blank line and the row
\* of post K1; a ledger whose row starts with the post's URL.  Every row has its
\* file.  Each ledger is as the program writes it: every line ends with a line break.
World0 == [ledger |-> << >>, out_dir |-> << >>, written |-> {}]
World1 ==
  LET name == PdfName(<< "2025-09-07" >>, << "A" >>)
      url == ViewUrl(Owner, K1)
  IN  [ledger |-> append_index_row(<< "#", "index", NL, NL >>, K1, << "2025-09-07" >>,
                                   << "A" >>, name, url),
       out_dir |-> << [name |-> name, page |-> url, complete |-> TRUE] >>,
       written |-> {<< url, name >>}]
World2 ==
  LET name == PdfName(<< "2025-09-07" >>, << "A" >>)
      url == MobileUrl(Owner, K2)
  IN  [ledger |-> append_index_row(<< >>, url, << "2025-09-07" >>, << "A" >>, name, url),
       out_dir |-> << [name |-> name, page |-> url, complete |-> TRUE] >>,
       written |-> {<< url, name >>}]
Worlds == {World0, World1, World2}

\* the listings a category run may meet
CategoryListings == {l \in Listings : Len(l.pages) <= 1 /\ ~l.repeat}

EnumIdle ==
  /\ e_pc = "idle" /\ e_page = 0 /\ e_seen = {} /\ e_out = << >> /\ e_reqs = << >>

FunIdle == f_pc = "idle" /\ f_arg = << >> /\ f_res = << >>

Init ==
  /\ method \in {"devtools", "kiosk"}
  /\ mode \in {"urls", "category"}
  /\ IF mode = "urls"
     THEN input \in SeqsUpTo(UrlLines, MaxUrls) /\ listing = NoListing
     ELSE input = << >> /\ listing \in CategoryListings
  /\ \E w \in Worlds : ledger = w.ledger /\ out_dir = w.out_dir /\ written = w.written
  /\ run = 1 /\ pc = "start" /\ done_keys = {} /\ url_list = << >> /\ i = 0
  /\ page = NoPage /\ title = << >> /\ date_for_name = << >> /\ fpath = << >>
  /\ pending = {} /\ polls = 0
  /\ loaded = {} /\ navigated = << >> /\ outcome = << >> /\ appendLog = << >>
  /\ wrote = {} /\ prev = "none"
  /\ EnumIdle /\ FunIdle

(* -------------------------------- main -------------------------------- *)
\* main with --urls-file: load the ledger, read the file, drop duplicates, filter
StartUrlsFile ==
  /\ pc = "start" /\ mode = "urls"
  /\ done_keys' = load_done_keys_from_index(ledger)
  /\ loaded' = done_keys'
  /\ url_list' = FilterDone(DedupUrls(input, {}), done_keys')
  /\ i' = 1 /\ pc' = "loop"
  /\ UNCHANGED << argVars, ledger, out_dir, run, saverVars, pending, navigated, outcome,
                  appendLog, wrote, prev, written, enumVars, funVars >>

\* main without --urls-file: nothing between building the driver and quitting it
StartNoUrlsFile ==
  /\ pc = "start" /\ mode = "category"
  /\ done_keys' = load_done_keys_from_index(ledger)
  /\ loaded' = done_keys'
  /\ pc' = "done"
  /\ UNCHANGED << argVars, ledger, out_dir, run, url_list, i, saverVars, pending,
                  navigated, outcome, appendLog, wrote, prev, written, enumVars, funVars >>

InLoop(at) == pc = at /\ i >= 1 /\ i <= Len(url_list)

\* the end of one pass of the for loop
NextItem(oc) ==
  /\ outcome' = Append(outcome, oc)
  /\ i' = i + 1 /\ pc' = "loop"
  /\ page' = NoPage /\ title' = << >> /\ date_for_name' = << >> /\ fpath' = << >>
  /\ polls' = 0

\* driver.get(url) loads a page
Navigate ==
  /\ InLoop("loop")
  /\ \E p \in {PostPage(url_list[i])} \cup LoginPages(url_list[i]) :
       /\ page' = p
       /\ navigated' = Append(navigated, [url |-> url_list[i], title |-> p.title])
  /\ pc' = "check"
  /\ UNCHANGED << argVars, ledger, out_dir, run, done_keys, url_list, i, title,
                  date_for_name, fpath, polls, pending, loaded, outcome, appendLog,
                  wrote, prev, written, enumVars, funVars >>

\* driver.get(url) raises
NavigateRaises ==
  /\ InLoop("loop")
  /\ navigated' = Append(navigated, [url |-> url_list[i], title |-> << >>])
  /\ NextItem("failed")
  /\ UNCHANGED << argVars, ledger, out_dir, run, done_keys, url_list, pending, loaded,
                  appendLog, wrote, prev, written, enumVars, funVars >>

\* the saver's login test: return None, or go on
LoginCheck ==
  /\ InLoop("check")
  /\ IF IsLoginTitle(page.title)
     THEN NextItem("skipped")
     ELSE /\ pc' = "extract"
          /\ UNCHANGED << outcome, i, saverVars >>
  /\ UNCHANGED << argVars, ledger, out_dir, run, done_keys, url_list, pending, loaded,
                  navigated, appendLog, wrote, prev, written, enumVars, funVars >>

\* extract_title_and_date and the choice of the file's name
Extract ==
  /\ InLoop("extract")
  /\ title' = ExtractedTitle(page)
  /\ date_for_name' = DateForName(DateResult(page))
  /\ fpath' = OutputName(out_dir, url_list[i], title', date_for_name')
  /\ pc' = "print"
  /\ UNCHANGED << argVars, ledger, out_dir, run, done_keys, url_list, i, page, polls,
                  pending, histVars, written, enumVars, funVars >>

\* devtools: Page.printToPDF returns the bytes
PrintToPDF ==
  /\ InLoop("print") /\ method = "devtools"
  /\ pc' = "write"
  /\ UNCHANGED << argVars, ledger, out_dir, run, done_keys, url_list, i, saverVars,
                  pending, histVars, written, enumVars, funVars >>

\* devtools: open(fpath, "wb")
OpenFile ==
  /\ InLoop("write")
  /\ out_dir' = OpenForWrite(out_dir, fpath, page.url)
  /\ wrote' = wrote \cup {i}
  /\ pc' = "writing"
  /\ UNCHANGED << argVars, ledger, run, done_keys, url_list, i, saverVars, pending,
                  loaded, navigated, outcome, appendLog, prev, written, enumVars, funVars >>

\* devtools: the bytes are written and the file closed; return the tuple
FinishWrite ==
  /\ InLoop("writing")
  /\ out_dir' = CloseWritten(out_dir, fpath)
  /\ written' = written \cup {<< page.url, fpath >>}
  /\ pc' = "saved"
  /\ UNCHANGED << argVars, ledger, run, done_keys, url_list, i, saverVars, pending,
                  histVars, enumVars, funVars >>

\* kiosk: window.print() hands the page to Chrome, which saves it when it will
WindowPrint ==
  /\ InLoop("print") /\ method = "kiosk"
  /\ pending' = pending \cup {page}
  /\ wrote' = wrote \cup {i}
  /\ polls' = PollLimit
  /\ pc' = "poll"
  /\ UNCHANGED << argVars, ledger, out_dir, run, done_keys, url_list, i, page, title,
                  date_for_name, fpath, loaded, navigated, outcome, appendLog, prev,
                  written, enumVars, funVars >>

\* kiosk: Chrome saves a page it was asked to print, under the name it chooses
BrowserSave ==
  /\ \E p \in pending :
       LET name == BrowserFileName(p) IN
       /\ out_dir' = Append(Without(out_dir, name),
                            [name |-> name, page |-> p.url, complete |-> TRUE])
       /\ written' = written \cup {<< p.url, name >>}
       /\ pending' = pending \ {p}
  /\ UNCHANGED << argVars, ledger, mainVars, saverVars, histVars, enumVars, funVars >>

\* kiosk: one pass of the polling loop that finds no PDF
PollEmpty ==
  /\ InLoop("poll") /\ polls > 0 /\ out_dir = << >>
  /\ polls' = polls - 1
  /\ UNCHANGED << argVars, ledger, out_dir, mainVars, page, title, date_for_name, fpath,
                  pending, histVars, written, enumVars, funVars >>

\* kiosk: the polling loop ends without a PDF: return None
PollGiveUp ==
  /\ InLoop("poll") /\ polls = 0
  /\ NextItem("skipped")
  /\ UNCHANGED << argVars, ledger, out_dir, run, done_keys, url_list, pending, loaded,
                  navigated, appendLog, wrote, prev, written, enumVars, funVars >>

\* kiosk: one pass of the polling loop that finds PDFs: the newest is given the
\* post's name, and the tuple returned.  Where a file of that name exists, rename
\* replaces it (POSIX) or raises, which the code passes over (Windows).
PollFound ==
  /\ InLoop("poll") /\ polls > 0 /\ out_dir # << >>
  /\ LET latest == out_dir[Len(out_dir)] IN
       IF latest.name = fpath
       THEN UNCHANGED << out_dir, written >>
       ELSE \/ /\ out_dir' = Rename(out_dir, latest.name, fpath)
               /\ written' = written \cup {<< latest.page, fpath >>}
            \/ /\ fpath \in Names(out_dir)
               /\ UNCHANGED << out_dir, written >>
  /\ pc' = "saved"
  /\ UNCHANGED << argVars, ledger, run, done_keys, url_list, i, saverVars, pending,
                  histVars, enumVars, funVars >>

Record_NoRow ==
  /\ InLoop("saved")
  /\ NextItem("saved")
  /\ UNCHANGED << argVars, ledger, done_keys, appendLog, out_dir, run, url_list,
                  pending, loaded, navigated, wrote, prev, written, enumVars, funVars >>

\* main, "if ret:": the row is appended and the key marked done
Record ==
  /\ InLoop("saved")
  /\ LET u == url_list[i]
         log_no == canonical_key_from_url(u)
     IN  IF log_no # None /\ log_no \in done_keys
         THEN UNCHANGED << ledger, done_keys, appendLog >>
         ELSE /\ ledger' = append_index_row(ledger, log_no, date_for_name, title, fpath, u)
              /\ done_keys' = IF log_no # None THEN done_keys \cup {log_no} ELSE done_keys
              /\ appendLog' = Append(appendLog, i)
  /\ NextItem("saved")
  /\ UNCHANGED << argVars, out_dir, run, url_list, pending, loaded, navigated, wrote,
                  prev, written, enumVars, funVars >>

\* the places of a saver an exception may leave from
RaisePoints == {"check", "extract", "print", "write", "writing", "poll"}

Raise_Aborts ==
  /\ pc \in RaisePoints /\ i >= 1 /\ i <= Len(url_list)
  /\ outcome' = Append(outcome, "failed")
  /\ pc' = "done" /\ pending' = {}
  /\ UNCHANGED << argVars, ledger, out_dir, run, done_keys, url_list, i, saverVars,
                  loaded, navigated, appendLog, wrote, prev, written, enumVars, funVars >>

\* main, "except Exception": the item is given up and the loop goes on
Raise ==
  /\ pc \in RaisePoints /\ i >= 1 /\ i <= Len(url_list)
  /\ NextItem("failed")
  /\ UNCHANGED << argVars, ledger, out_dir, run, done_keys, url_list, pending, loaded,
                  navigated, appendLog, wrote, prev, written, enumVars, funVars >>

\* the list is exhausted: return, and driver.quit()
Finish ==
  /\ pc = "loop" /\ i > Len(url_list)
  /\ pc' = "done" /\ pending' = {}
  /\ UNCHANGED << argVars, ledger, out_dir, run, done_keys, url_list, i, saverVars,
                  histVars, written, enumVars, funVars >>

\* the process is terminated, wherever it is: what it held in memory is lost
Kill ==
  /\ pc \notin {"start", "done", "dead", "idle"}
  /\ pc' = "dead" /\ pending' = {}
  /\ page' = NoPage /\ title' = << >> /\ date_for_name' = << >> /\ fpath' = << >>
  /\ polls' = 0
  /\ done_keys' = {} /\ url_list' = << >> /\ i' = 0
  /\ loaded' = {} /\ navigated' = << >> /\ outcome' = << >> /\ appendLog' = << >>
  /\ wrote' = {}
  /\ UNCHANGED << argVars, ledger, out_dir, run, prev, written, enumVars, funVars >>

\* how a run ended: "clean" when it went through its list and saved every item
EndOfRun ==
  IF pc = "dead" THEN "killed"
  ELSE IF Len(outcome) = Len(url_list) /\ \A j \in 1..Len(outcome) : outcome[j] = "saved"
  THEN "clean"
  ELSE "done"

\* the program is started again on the same arguments, ledger file and directory
Restart ==
  /\ pc \in {"done", "dead"} /\ run < MaxRuns
  /\ run' = run + 1 /\ pc' = "start"
  /\ prev' = EndOfRun
  /\ done_keys' = {} /\ url_list' = << >> /\ i' = 0
  /\ loaded' = {} /\ navigated' = << >> /\ outcome' = << >> /\ appendLog' = << >>
  /\ wrote' = {}
  /\ UNCHANGED << argVars, ledger, out_dir, saverVars, pending, written, enumVars, funVars >>

Next ==
  \/ StartUrlsFile \/ StartNoUrlsFile
  \/ Navigate \/ NavigateRaises \/ LoginCheck \/ Extract
  \/ PrintToPDF \/ OpenFile \/ FinishWrite
  \/ WindowPrint \/ BrowserSave \/ PollEmpty \/ PollGiveUp \/ PollFound
  \/ Record \/ Raise \/ Finish \/ Kill \/ Restart

Spec == Init /\ [][Next]_vars

\* one run of the program, from any of the states it may find
NextOneRun ==
  \/ StartUrlsFile \/ StartNoUrlsFile
  \/ Navigate \/ NavigateRaises \/ LoginCheck \/ Extract
  \/ PrintToPDF \/ OpenFile \/ FinishWrite
  \/ WindowPrint \/ BrowserSave \/ PollEmpty \/ PollGiveUp \/ PollFound
  \/ Record \/ Raise \/ Finish \/ Kill

SpecOneRun == Init /\ [][NextOneRun]_vars

(* --------------------- enumerate_category_via_api --------------------- *)
MainIdle ==
  /\ method = "devtools" /\ mode = "category" /\ input = << >>
  /\ ledger = << >> /\ out_dir = << >> /\ written = {}
  /\ run = 0 /\ pc = "idle" /\ done_keys = {} /\ url_list = << >> /\ i = 0
  /\ page = NoPage /\ title = << >> /\ date_for_name = << >> /\ fpath = << >>
  /\ pending = {} /\ polls = 0
  /\ loaded = {} /\ navigated = << >> /\ outcome = << >> /\ appendLog = << >>
  /\ wrote = {} /\ prev = "none"

InitEnum ==
  /\ listing \in Listings
  /\ MainIdle /\ FunIdle
  /\ e_pc = "get" /\ e_page = 1 /\ e_seen = {} /\ e_out = << >> /\ e_reqs = << >>

mainAll ==
  << argVars, ledger, out_dir, mainVars, saverVars, pending, histVars, written, funVars >>

\* The page counter has no bound in the code; the model stops asking two pages
\* after the last page a listing can have.  No listing gets the loop that far.
CanAsk == e_page <= MaxPages + 2

\* s.get(...) for the page, and r.json() decodes the body
EnumGet ==
  /\ e_pc = "get" /\ CanAsk
  /\ e_reqs' = Append(e_reqs, e_page)
  /\ e_pc' = "body"
  /\ UNCHANGED << mainAll, e_page, e_seen, e_out >>

\* s.get(...) for the page, and r.json() raises
EnumGetUndecodable ==
  /\ e_pc = "get" /\ CanAsk
  /\ e_reqs' = Append(e_reqs, e_page)
  /\ e_pc' = "retry"
  /\ UNCHANGED << mainAll, e_page, e_seen, e_out >>

\* a second request that gives the page up and goes on with the next one
EnumRetry_SkipsPage ==
  /\ e_pc = "retry"
  /\ e_reqs' = Append(e_reqs, e_page)
  /\ e_pc' = "get" /\ e_page' = e_page + 1
  /\ UNCHANGED << mainAll, e_seen, e_out >>

\* the second s.get(...) for the page, and r.json() decodes the body
EnumRetry ==
  /\ e_pc = "retry"
  /\ e_reqs' = Append(e_reqs, e_page)
  /\ e_pc' = "body"
  /\ UNCHANGED << mainAll, e_page, e_seen, e_out >>

\* the second s.get(...) for the page, and r.json() raises again: no handler
EnumRetryUndecodable ==
  /\ e_pc = "retry"
  /\ e_reqs' = Append(e_reqs, e_page)
  /\ e_pc' = "raised"
  /\ UNCHANGED << mainAll, e_page, e_seen, e_out >>

\* r.raise_for_status() raises, at the first request or at the second
EnumHttpError ==
  /\ e_pc \in {"get", "retry"} /\ CanAsk
  /\ e_reqs' = Append(e_reqs, e_page)
  /\ e_pc' = "raised"
  /\ UNCHANGED << mainAll, e_page, e_seen, e_out >>

\* a pass of the loop that goes on after a page that added nothing
EnumBody_NoGuard ==
  /\ e_pc = "body"
  /\ LET posts == PostList(listing, e_page)
         got == AddPosts(posts, e_seen, e_out, 0)
     IN  IF posts = << >>
         THEN e_pc' = "returned" /\ UNCHANGED << e_page, e_seen, e_out >>
         ELSE /\ e_seen' = got[1] /\ e_out' = got[2]
              /\ e_pc' = "get" /\ e_page' = e_page + 1
  /\ UNCHANGED << mainAll, e_reqs >>

\* the rest of one pass of the while loop, from "posts = ..." on
EnumBody ==
  /\ e_pc = "body"
  /\ LET posts == PostList(listing, e_page)
         got == AddPosts(posts, e_seen, e_out, 0)
     IN  IF posts = << >>
         THEN e_pc' = "returned" /\ UNCHANGED << e_page, e_seen, e_out >>
         ELSE /\ e_seen' = got[1] /\ e_out' = got[2]
              /\ IF got[3] = 0
                 THEN e_pc' = "returned" /\ UNCHANGED e_page
                 ELSE e_pc' = "get" /\ e_page' = e_page + 1
  /\ UNCHANGED << mainAll, e_reqs >>

NextEnum ==
  \/ EnumGet \/ EnumGetUndecodable \/ EnumRetry \/ EnumRetryUndecodable
  \/ EnumHttpError \/ EnumBody

SpecEnum == InitEnum /\ [][NextEnum]_vars

\* The function is sequential code: a step that can be taken is taken.
SpecEnumFair == SpecEnum /\ WF_vars(NextEnum)

(* ------------------------------- dates -------------------------------- *)
\* Date text is one token per character: the digits, ".", "-", "/", ":", "|",
\* the blank, a letter "x", and "nyeon", "wol", "il" for the year, month and day
\* characters of the second pattern.
DateSeps == {".", "-", "/"}
WordChars == Digits \cup {"x", "_", "nyeon", "wol", "il"}

DigitVal(c) ==
  CASE c = "0" -> 0 [] c = "1" -> 1 [] c = "2" -> 2 [] c = "3" -> 3 [] c = "4" -> 4
    [] c = "5" -> 5 [] c = "6" -> 6 [] c = "7" -> 7 [] c = "8" -> 8 [] c = "9" -> 9

DigitChar(n) == CHOOSE c \in Digits : DigitVal(c) = n

\* int(s) of a run of digits
RECURSIVE ToInt(_)
ToInt(s) ==
  IF s = << >> THEN 0 ELSE 10 * ToInt(SubSeq(s, 1, Len(s) - 1)) + DigitVal(s[Len(s)])

\* str(n) of a number n >= 0
RECURSIVE ToStr(_)
ToStr(n) == IF n < 10 THEN << DigitChar(n) >> ELSE ToStr(n \div 10) \o << DigitChar(n % 10) >>

\* f"{n:0wd}"
RECURSIVE Pad(_, _)
Pad(s, w) == IF Len(s) >= w THEN s ELSE Pad(<< "0" >> \o s, w)

\* the number of digits in a row from position n on
RECURSIVE Run(_, _)
Run(s, n) == IF n >= 1 /\ n <= Len(s) /\ s[n] \in Digits THEN 1 + Run(s, n + 1) ELSE 0

\* the first position from n on that holds no white space
RECURSIVE SkipWs(_, _)
SkipWs(s, n) == IF n <= Len(s) /\ s[n] \in White THEN SkipWs(s, n + 1) ELSE n

At(s, n) == IF n >= 1 /\ n <= Len(s) THEN s[n] ELSE ""

\* \b at the place before position n
Boundary(s, n) == (At(s, n - 1) \in WordChars) # (At(s, n) \in WordChars)

is_plausible_ymd_AnyYear(y, m, d, curr) ==
  /\ 1 <= m /\ m <= 12
  /\ 1 <= d /\ d <= 31

is_plausible_ymd(y, m, d, curr) ==
  /\ 2005 <= y /\ y <= curr + 1
  /\ 1 <= m /\ m <= 12
  /\ 1 <= d /\ d <= 31

_fmt_if_valid(y, mo, d, curr) ==
  LET yi == ToInt(y)
      mi == ToInt(mo)
      di == ToInt(d)
  IN  IF is_plausible_ymd(yi, mi, di, curr)
      THEN Pad(ToStr(yi), 4) \o << "-" >> \o Pad(ToStr(mi), 2) \o << "-" >> \o Pad(ToStr(di), 2)
      ELSE None

\* re.search: the leftmost of the positions where a pattern matches, 0 if none
Leftmost(hits) == IF hits = {} THEN 0 ELSE Min(hits)

Upto2_OneDigit(s, n) == SubSeq(s, n, n)

\* the digits a trailing (\d{1,2}) takes at position n
Upto2(s, n) == SubSeq(s, n, n + (IF Run(s, n) >= 2 THEN 2 ELSE 1) - 1)

\* DATE_PATTERNS[0]: (\d{4})[.\-\/](\d{1,2})[.\-\/](\d{1,2})
Ymd0At(s, n) ==
  LET r == Run(s, n + 5) IN
  /\ Run(s, n) >= 4 /\ At(s, n + 4) \in DateSeps
  /\ r \in {1, 2} /\ At(s, n + 5 + r) \in DateSeps
  /\ Run(s, n + 6 + r) >= 1
Ymd0Groups(s, n) ==
  LET r == Run(s, n + 5) IN
  << SubSeq(s, n, n + 3), SubSeq(s, n + 5, n + 4 + r), Upto2(s, n + 6 + r) >>

\* DATE_PATTERNS[1]: (\d{4})\s*Y\s*(\d{1,2})\s*M\s*(\d{1,2})\s*D
Ymd1At(s, n) ==
  LET p1 == SkipWs(s, n + 4)
      a == SkipWs(s, p1 + 1)
      p2 == SkipWs(s, a + Run(s, a))
      b == SkipWs(s, p2 + 1)
      p3 == SkipWs(s, b + Run(s, b))
  IN  /\ Run(s, n) >= 4 /\ At(s, p1) = "nyeon"
      /\ Run(s, a) \in {1, 2} /\ At(s, p2) = "wol"
      /\ Run(s, b) \in {1, 2} /\ At(s, p3) = "il"
Ymd1Groups(s, n) ==
  LET p1 == SkipWs(s, n + 4)
      a == SkipWs(s, p1 + 1)
      p2 == SkipWs(s, a + Run(s, a))
      b == SkipWs(s, p2 + 1)
  IN  << SubSeq(s, n, n + 3), SubSeq(s, a, a + Run(s, a) - 1),
         SubSeq(s, b, b + Run(s, b) - 1) >>

\* DATE_PATTERNS[2]: \b(\d{4})(\d{2})(\d{2})(\d{2})(\d{2})(\d{2})\b
Ymd2At(s, n) == Boundary(s, n) /\ Run(s, n) >= 14 /\ Boundary(s, n + 14)
\* DATE_PATTERNS[3]: \b(\d{4})(\d{2})(\d{2})\b
Ymd3At(s, n) == Boundary(s, n) /\ Run(s, n) >= 8 /\ Boundary(s, n + 8)
\* the first three groups of either
YmdRunGroups(s, n) ==
  << SubSeq(s, n, n + 3), SubSeq(s, n + 4, n + 5), SubSeq(s, n + 6, n + 7) >>

\* MD_PATTERN: (?<!\d)(\d{1,2})\.(\d{1,2})\.(?!\d)
MdAt(s, n) ==
  LET r == Run(s, n)
      q == Run(s, n + r + 1)
  IN  /\ At(s, n - 1) \notin Digits
      /\ r \in {1, 2} /\ At(s, n + r) = "."
      /\ q \in {1, 2} /\ At(s, n + r + 1 + q) = "."
      /\ At(s, n + r + q + 2) \notin Digits
MdGroups(s, n) ==
  LET r == Run(s, n) IN
  << SubSeq(s, n, n + r - 1), SubSeq(s, n + r + 1, n + r + Run(s, n + r + 1)) >>

\* the places of the leftmost matches
Ymd0Place(s) == Leftmost({n \in 1..Len(s) : Ymd0At(s, n)})
Ymd1Place(s) == Leftmost({n \in 1..Len(s) : Ymd1At(s, n)})
Ymd2Place(s) == Leftmost({n \in 1..Len(s) : Ymd2At(s, n)})
Ymd3Place(s) == Leftmost({n \in 1..Len(s) : Ymd3At(s, n)})
MdPlace(s) == Leftmost({n \in 1..Len(s) : MdAt(s, n)})

\* one step of normalize_date: the groups of a match, formatted if valid; None
\* stands for no match
TryYmd(g, curr) == IF g = None THEN None ELSE _fmt_if_valid(g[1], g[2], g[3], curr)

\* step 5 of normalize_date; fallback_year 0 is no fallback year
TryMd(s, fallback_year, curr) ==
  LET n == MdPlace(s) IN
  IF n = 0 \/ fallback_year = 0 THEN None
  ELSE LET g == MdGroups(s, n) IN _fmt_if_valid(ToStr(fallback_year), g[1], g[2], curr)

\* normalize_date with the year of the clock as third argument
normalize_date(text, fallback_year, curr) ==
  LET n0 == Ymd0Place(text)
      n1 == Ymd1Place(text)
      n2 == Ymd2Place(text)
      n3 == Ymd3Place(text)
      s0 == TryYmd(IF n0 = 0 THEN None ELSE Ymd0Groups(text, n0), curr)
      s1 == TryYmd(IF n1 = 0 THEN None ELSE Ymd1Groups(text, n1), curr)
      s2 == TryYmd(IF n2 = 0 THEN None ELSE YmdRunGroups(text, n2), curr)
      s3 == TryYmd(IF n3 = 0 THEN None ELSE YmdRunGroups(text, n3), curr)
  IN  IF text = << >> THEN None
      ELSE IF s0 # None THEN s0
      ELSE IF s1 # None THEN s1
      ELSE IF s2 # None THEN s2
      ELSE IF s3 # None THEN s3
      ELSE TryMd(text, fallback_year, curr)

\* (\d{4})\s*\.\s*(\d{1,2})\s*\.\s*(\d{1,2}) of parse_publish_text
PubAt(s, n) ==
  LET p1 == SkipWs(s, n + 4)
      a == SkipWs(s, p1 + 1)
      p2 == SkipWs(s, a + Run(s, a))
      b == SkipWs(s, p2 + 1)
  IN  /\ Run(s, n) >= 4 /\ At(s, p1) = "."
      /\ Run(s, a) \in {1, 2} /\ At(s, p2) = "."
      /\ Run(s, b) >= 1
PubGroups(s, n) ==
  LET p1 == SkipWs(s, n + 4)
      a == SkipWs(s, p1 + 1)
      p2 == SkipWs(s, a + Run(s, a))
      b == SkipWs(s, p2 + 1)
  IN  << SubSeq(s, n, n + 3), SubSeq(s, a, a + Run(s, a) - 1), Upto2(s, b) >>

\* parse_publish_text, fallback_year a year
parse_publish_text(txt, fallback_year, curr) ==
  LET n == Leftmost({m \in 1..Len(txt) : PubAt(txt, m)})
      k == MdPlace(txt)
  IN  IF txt = << >> THEN None
      ELSE IF n # 0 THEN TryYmd(PubGroups(txt, n), curr)
      ELSE IF k # 0
      THEN LET g == MdGroups(txt, k) IN _fmt_if_valid(ToStr(fallback_year), g[1], g[2], curr)
      ELSE None

(* ---------------------- functions called on their own ----------------- *)
progVars ==
  << argVars, ledger, out_dir, mainVars, saverVars, pending, histVars, written, enumVars >>

ProgIdle == MainIdle /\ EnumIdle /\ listing = NoListing

\* a log number of five digits
KShort == << "1", "2", "3", "4", "5" >>
LogNos == {KShort, K1, K2}

\* the addresses of the post log_no of blog blog_id: the view URL with its
\* parameters in either order, on the desktop host and on the mobile host; the
\* path URL on either host; the mobile path URL with a query string after it
UrlForms == {"view", "view-logNo-first", "mobile-view", "mobile", "path", "mobile-query"}
PostUrl(form, blog_id, log_no) ==
  CASE form = "view" -> ViewUrl(blog_id, log_no)
    [] form = "view-logNo-first" ->
         << "https://", "blog.naver.com", "/", "PostView.naver", "?", "logNo=" >>
           \o log_no \o << "&", "blogId=" >> \o blog_id
    [] form = "mobile-view" ->
         << "https://", "m.blog.naver.com", "/", "PostView.naver", "?", "blogId=" >>
           \o blog_id \o << "&", "logNo=" >> \o log_no
    [] form = "mobile" -> MobileUrl(blog_id, log_no)
    [] form = "path" ->
         << "https://", "blog.naver.com", "/" >> \o blog_id \o << "/" >> \o log_no
    [] form = "mobile-query" ->
         MobileUrl(blog_id, log_no) \o << "?", "navType=", "by" >>

\* two addresses of one post
InitKey ==
  /\ ProgIdle
  /\ f_pc = "call" /\ f_res = << >>
  /\ \E a \in UrlForms, b \in UrlForms, k \in LogNos :
       f_arg = << PostUrl(a, Owner, k), PostUrl(b, Owner, k), k >>

\* canonical_key_from_url(u1), canonical_key_from_url(u2)
CallKey ==
  /\ f_pc = "call"
  /\ f_res' = << canonical_key_from_url(f_arg[1]), canonical_key_from_url(f_arg[2]) >>
  /\ f_pc' = "done"
  /\ UNCHANGED << progVars, f_arg >>

SpecKey == InitKey /\ [][CallKey]_vars

(* ----------------------- extract_title_and_date ----------------------- *)
\* What a date source may read: nothing, a full date, a date without year, a
\* text without date, a line of several tries; or the read raises.
RawTexts ==
  { << >>,
    << "2", "0", "2", "5", ".", " ", "8", ".", " ", "3", "1", ".", " ", "2", "3", ":", "0", "0" >>,
    << "9", ".", "7", "." >>,
    << "x" >>,
    << "x", " ", "|", " ", "2", "0", "2", "4", "1", "2", "3", "1" >> }
Raised == << "raised" >>
SourceOutcomes == RawTexts \cup {Raised}

\* re.split(r"\s*\|\s*", raw_m)[0]
FirstPart(raw) ==
  LET bars == {n \in 1..Len(raw) : raw[n] = "|"} IN
  IF bars = {} THEN raw ELSE RStrip(SubSeq(raw, 1, Min(bars) - 1))

CascadeOrder == << "span", "meta", "mobile", "static", "static_m" >>
CascadeUrls == {ViewUrl(Owner, K1), MobileUrl(Owner, K2), HomeUrl}
Today == << "2", "0", "2", "6", "-", "1", "1", "-", "0", "3" >>

\* extract_title_and_date is called for a page that the browser shows
InitCascade ==
  /\ ProgIdle
  /\ f_pc = "span"
  /\ \E u \in CascadeUrls, fy \in {2024, 2026} :
       /\ f_arg = [url |-> u, fallback_year |-> fy, curr |-> 2026, today |-> Today]
       /\ f_res = [date_norm |-> None, used_upload_today |-> FALSE,
                   consulted |-> << >>, at |-> u]

HasMobile(u) ==
  LET p == parse_blog_id_logno(u) IN p[1] # None /\ p[2] # None

Consult(src, got) ==
  [f_res EXCEPT !.date_norm = got,
                !.consulted = Append(@, [src |-> src, got |-> got])]

\* 0) the publish-date span of the page
CascadeSpan ==
  /\ f_pc = "span"
  /\ \E o \in SourceOutcomes :
       LET raw_pub == IF o = Raised THEN << >> ELSE o IN
       f_res' = Consult("span", parse_publish_text(raw_pub, f_arg.fallback_year, f_arg.curr))
  /\ f_pc' = "meta"
  /\ UNCHANGED << progVars, f_arg >>

\* a scan that is made whether or not a date was found
CascadeMeta_Always ==
  /\ f_pc = "meta"
  /\ \E o \in SourceOutcomes :
       f_res' = Consult("meta", IF o = Raised THEN None
                                ELSE normalize_date(o, f_arg.fallback_year, f_arg.curr))
  /\ f_pc' = "mobile"
  /\ UNCHANGED << progVars, f_arg >>

\* 1) the metadata scan of the desktop page
CascadeMeta ==
  /\ f_pc = "meta"
  /\ IF f_res.date_norm # None THEN UNCHANGED f_res
     ELSE \E o \in SourceOutcomes :
            f_res' = Consult("meta", IF o = Raised THEN None
                                     ELSE normalize_date(o, f_arg.fallback_year, f_arg.curr))
  /\ f_pc' = "mobile"
  /\ UNCHANGED << progVars, f_arg >>

\* 2) the mobile page, loaded in the browser
CascadeMobile ==
  /\ f_pc = "mobile"
  /\ IF f_res.date_norm # None \/ ~HasMobile(f_arg.url) THEN UNCHANGED f_res
     ELSE LET p == parse_blog_id_logno(f_arg.url)
              mobile_url == MobileUrl(p[1], p[2])
          IN  \/ \* driver.get(mobile_url) raises
                 f_res' = Consult("mobile", None)
              \/ \E o \in SourceOutcomes :
                   LET span_try == IF o = Raised THEN << >> ELSE FirstPart(o)
                       d1 == parse_publish_text(span_try, f_arg.fallback_year, f_arg.curr)
                       d2 == IF o = Raised THEN None
                             ELSE IF d1 # None THEN d1
                             ELSE normalize_date(o, f_arg.fallback_year, f_arg.curr)
                   IN  f_res' = [Consult("mobile", d2) EXCEPT !.at = mobile_url]
  /\ f_pc' = "static"
  /\ UNCHANGED << progVars, f_arg >>

\* extract_date_from_html_text of a page without publish-date span, date
\* metadata, JSON-LD date or time element: its step 4
extract_date_from_html_text(html, fallback_year, curr) ==
  IF html = << >> THEN None ELSE normalize_date(html, fallback_year, curr)

\* 3) the static fetch of url; fetch_static_html gives None when the request raises
CascadeStatic ==
  /\ f_pc = "static"
  /\ IF f_res.date_norm # None THEN UNCHANGED f_res
     ELSE \E o \in SourceOutcomes :
            LET html == IF o = Raised THEN << >> ELSE o IN
            f_res' = Consult("static", extract_date_from_html_text(html, f_arg.fallback_year,
                                                                   f_arg.curr))
  /\ f_pc' = "static_m"
  /\ UNCHANGED << progVars, f_arg >>

\* the static fetch of the mobile URL
CascadeStaticMobile ==
  /\ f_pc = "static_m"
  /\ IF f_res.date_norm # None \/ ~HasMobile(f_arg.url) THEN UNCHANGED f_res
     ELSE \E o \in SourceOutcomes :
            LET html_m == IF o = Raised THEN << >> ELSE o IN
            f_res' = Consult("static_m", extract_date_from_html_text(html_m, f_arg.fallback_year,
                                                                     f_arg.curr))
  /\ f_pc' = "return"
  /\ UNCHANGED << progVars, f_arg >>

\* 4) today's date, and the return
CascadeReturn ==
  /\ f_pc = "return"
  /\ f_res' = IF f_res.date_norm # None THEN f_res
              ELSE [f_res EXCEPT !.date_norm = f_arg.today, !.used_upload_today = TRUE]
  /\ f_pc' = "done"
  /\ UNCHANGED << progVars, f_arg >>

NextCascade ==
  \/ CascadeSpan \/ CascadeMeta \/ CascadeMobile \/ CascadeStatic
  \/ CascadeStaticMobile \/ CascadeReturn

\* the function is sequential code: a step that can be taken is taken
SpecCascade == InitCascade /\ [][NextCascade]_vars /\ WF_vars(NextCascade)

(* ---------------- save_post_as_pdf_devtools, from line 507 ------------- *)
\* Page.printToPDF prints the page the browser shows
SaverPrint ==
  /\ f_pc = "done"
  /\ f_res' = [date_norm |-> f_res.date_norm,
               used_upload_today |-> f_res.used_upload_today,
               consulted |-> f_res.consulted, at |-> f_res.at,
               printed |-> f_res.at]
  /\ f_pc' = "printed"
  /\ UNCHANGED << progVars, f_arg >>

NextDevtools == NextCascade \/ SaverPrint

\* the saver after driver.get(url) and the login test: the date cascade, then
\* the print
SpecDevtools == InitCascade /\ [][NextDevtools]_vars

(* ---------------------------- normalize_date -------------------------- *)
\* most pieces a text is made of
MaxFrags == 2

\* the pieces of the texts: dates in the forms of the patterns, with years in
\* and out of the range, months and days in and out of the range, dates
\* without year, a letter
Fragments ==
  { << "2", "0", "2", "5", "-", "0", "9", "-", "0", "7" >>,
    << "2", "0", "2", "5", ".", "9", ".", "7", "." >>,
    << "1", "8", "9", "9", "-", "0", "1", "-", "0", "1" >>,
    << "2", "9", "9", "9", "-", "0", "1", "-", "0", "1" >>,
    << "2", "0", "2", "5", "-", "1", "3", "-", "4", "5" >>,
    << "2", "0", "2", "8", "/", "1", "/", "1" >>,
    << "9", ".", "7", "." >>,
    << "1", "2", ".", "3", "1", "." >>,
    << "1", "3", ".", "3", "2", "." >>,
    << "2", "0", "2", "5", "0", "9", "0", "7" >>,
    << "2", "0", "2", "5", "0", "9", "0", "7", "1", "2", "3", "0", "1", "2" >>,
    << "2", "0", "2", "5", "nyeon", " ", "9", "wol", " ", "7", "il" >>,
    << "x" >>,
    << "2", "0", "0", "4", ".", "1", "2", ".", "3", "1" >> }

\* the texts of n pieces, with a blank between two pieces
RECURSIVE TextsOf(_)
TextsOf(n) ==
  IF n = 1 THEN Fragments
  ELSE {t \o << SP >> \o f : t \in TextsOf(n - 1), f \in Fragments}
DateTexts == UNION {TextsOf(n) : n \in 1..MaxFrags}

\* localtime().tm_year
ClockYears == {2026, 2027}
\* the fallback years; 0: none given
FallbackYears == {0, 1999, 2024, 2030}

\* f"{y:04d}{sep}{m:02d}{sep}{d:02d}"
FormatYmd(y, m, d, sep) ==
  Pad(ToStr(y), 4) \o << sep >> \o Pad(ToStr(m), 2) \o << sep >> \o Pad(ToStr(d), 2)

\* normalize_date is called with a text, or with a date written YYYY.MM.DD
InitDate ==
  /\ ProgIdle
  /\ f_pc = "call" /\ f_res = << >>
  /\ \E curr \in ClockYears :
       \/ \E t \in DateTexts, fy \in FallbackYears :
            f_arg = [text |-> t, fallback_year |-> fy, curr |-> curr, ymd |-> << >>]
       \/ \E y \in 2005..(curr + 1), m \in 1..12, d \in 1..31 :
            f_arg = [text |-> FormatYmd(y, m, d, "."), fallback_year |-> 0,
                     curr |-> curr, ymd |-> << y, m, d >>]

CallNormalize ==
  /\ f_pc = "call"
  /\ f_res' = normalize_date(f_arg.text, f_arg.fallback_year, f_arg.curr)
  /\ f_pc' = "done"
  /\ UNCHANGED << progVars, f_arg >>

SpecDate == InitDate /\ [][CallNormalize]_vars

(* ----------------------- the ledger over two runs --------------------- *)
\* The og:title values of the pages: a plain title, titles with white space of
\* more than one character (collapsed by clean_title), and titles with one tab or
\* one line break inside (left as they are by clean_title).
OgTitles ==
  { << "A" >>,
    << "A", SP, SP, "B" >>,
    << "A", NL, NL, "B", SP >>,
    << "A", TAB, "B" >>,
    << "A", NL, "B" >>,
    << "A", NL >> \o K3 }

LedgerUrls == {ViewUrl(Owner, K1), MobileUrl(Owner, K2), HomeUrl}

\* the pages a run saves, in order: no two of one URL
SavedPages ==
  {s \in SeqsUpTo([url : LedgerUrls, title : {<< "Naver", SP, "Blog" >>}, og : OgTitles],
                  MaxUrls) :
     \A a \in 1..Len(s), b \in 1..Len(s) : a # b => s[a].url # s[b].url}

\* a run starts on a ledger and saves the pages of its list one after the other
InitLedger ==
  /\ ProgIdle
  /\ f_pc = "load"
  /\ \E w \in Worlds, s \in SavedPages : f_arg = [text |-> w.ledger, pages |-> s]
  /\ f_res = [text |-> f_arg.text, done_keys |-> {}, url_list |-> << >>, n |-> 0,
              rows |-> << >>, reloaded |-> {}]

\* done_keys = load_done_keys_from_index(index_path), and the ledger filter
LedgerLoad ==
  /\ f_pc = "load"
  /\ LET keys == load_done_keys_from_index(f_res.text)
         urls == [k \in 1..Len(f_arg.pages) |-> f_arg.pages[k].url]
     IN  f_res' = [f_res EXCEPT !.done_keys = keys,
                                !.url_list = FilterDone(DedupUrls(urls, {}), keys)]
  /\ f_pc' = "record"
  /\ UNCHANGED << progVars, f_arg >>

PageOfUrl(u) == CHOOSE p \in {f_arg.pages[k] : k \in 1..Len(f_arg.pages)} : p.url = u

\* the lines of main that follow a save that returned: fpath, title, date_for_name
LedgerRecord ==
  /\ f_pc = "record" /\ f_res.n < Len(f_res.url_list)
  /\ LET u == f_res.url_list[f_res.n + 1]
         pg == PageOfUrl(u)
         t == ExtractedTitle(pg)
         date == DateForName(DateResult(pg))
         name == OutputName(<< >>, u, t, date)
         log_no == canonical_key_from_url(u)
     IN  IF log_no # None /\ log_no \in f_res.done_keys
         THEN f_res' = [f_res EXCEPT !.n = @ + 1]
         ELSE f_res' = [f_res EXCEPT
                          !.n = @ + 1,
                          !.text = append_index_row(@, log_no, date, t, name, u),
                          !.done_keys = IF log_no # None THEN @ \cup {log_no} ELSE @,
                          !.rows = Append(@, << log_no, date, t, name, u >>)]
  /\ UNCHANGED << progVars, f_arg, f_pc >>

\* the run ends, and the next run loads the ledger
LedgerReload ==
  /\ f_pc = "record" /\ f_res.n = Len(f_res.url_list)
  /\ f_res' = [f_res EXCEPT !.reloaded = load_done_keys_from_index(f_res.text)]
  /\ f_pc' = "done"
  /\ UNCHANGED << progVars, f_arg >>

NextLedger == LedgerLoad \/ LedgerRecord \/ LedgerReload

SpecLedger == InitLedger /\ [][NextLedger]_vars

(* ------------------------------ the claims ---------------------------- *)
KeyOf(u) == canonical_key_from_url(u)
Count(seq, x) == Cardinality({n \in 1..Len(seq) : seq[n] = x})
IsPrefix(a, b) == Len(a) <= Len(b) /\ SubSeq(b, 1, Len(a)) = a
AllKeyed(list) == \A n \in 1..Len(list) : KeyOf(list[n]) # None
\* the place of the first line of the URL file that is u
FirstLine(u) == Min({n \in 1..Len(input) : input[n] = u})

\* The worlds are read as meant: load_done_keys_from_index finds the key of the
\* row behind a comment and a blank line, and the key of a row that starts with a
\* URL.
WorldKeysLoaded ==
  /\ load_done_keys_from_index(World0.ledger) = {}
  /\ load_done_keys_from_index(World1.ledger) = {K1}
  /\ load_done_keys_from_index(World2.ledger) = {K2}

\* C1 as the spec states it: a run that follows a run which went through the
\* URL list and saved every item of it renders no post and appends no row,
\* whatever URLs the list holds.
C1_SecondRunRendersNothing ==
  (mode = "urls" /\ run >= 2 /\ prev = "clean")
    => (navigated = << >> /\ appendLog = << >>)

\* C1, amended: when every URL of the list has a canonical key and the run before
\* went through its whole filtered list and saved every item of it, the next run
\* over the same list and ledger filters every URL out, renders no post and
\* appends no row.
C1_SecondRunIdleAfterCleanRun ==
  (mode = "urls" /\ run >= 2 /\ prev = "clean" /\ AllKeyed(input))
    => /\ navigated = << >> /\ appendLog = << >> /\ wrote = {}
       /\ pc \notin {"start", "dead"} => url_list = << >>
       /\ pc \in {"start", "loop", "done", "dead"}

\* a second run has ended after a clean first run over two posts, of which the
\* first run recorded at least one (no world holds both keys)
C1_Witness ==
  /\ mode = "urls" /\ run = 2 /\ prev = "clean" /\ pc = "done"
  /\ Len(input) = 2 /\ KeyOf(input[1]) = K1 /\ KeyOf(input[2]) = K2
  /\ {K1, K2} \subseteq load_done_keys_from_index(ledger)

\* C2: within one run append_index_row is called exactly once for every item
\* whose save returned a result and not at all for any other item, and every call
\* adds one line to the ledger the run found.
C2_AppendOncePerSavedItem ==
  /\ \A j \in 1..Len(url_list) :
       Count(appendLog, j) = IF j <= Len(outcome) /\ outcome[j] = "saved" THEN 1 ELSE 0
  /\ \A n \in 1..Len(appendLog) : appendLog[n] \in 1..Len(url_list)
  /\ pc # "dead" =>
       \E w \in Worlds :
         /\ IsPrefix(w.ledger, ledger)
         /\ Len(SplitLines(ledger)) = Len(SplitLines(w.ledger)) + Len(appendLog)

\* a run of two items has ended: one saved and recorded, one not saved
C2_Witness ==
  /\ pc = "done" /\ Len(outcome) = 2
  /\ outcome[1] = "saved" /\ outcome[2] \in {"skipped", "failed"}
  /\ appendLog = << 1 >>

\* C3: every step of every run, and every restart, leaves the text of the ledger
\* as it is or adds one line at its end: what was there stays, and the set of
\* keys the ledger records never shrinks.
C3_LedgerAppendOnly ==
  [][/\ IsPrefix(ledger, ledger')
     /\ load_done_keys_from_index(ledger) \subseteq load_done_keys_from_index(ledger')
     /\ LedgerRows(ledger) \subseteq LedgerRows(ledger')
     /\ ledger' # ledger =>
          /\ Len(SplitLines(ledger')) = Len(SplitLines(ledger)) + 1
          /\ ledger'[Len(ledger')] = NL]_vars

\* a run after a restart has added a row to a ledger that held rows already
C3_Witness ==
  /\ run >= 2 /\ appendLog # << >>
  /\ Cardinality(LedgerRows(ledger)) >= 2
  /\ Cardinality(load_done_keys_from_index(ledger)) >= 2

\* C4: at every point of a run every row of the ledger is the row of a post
\* whose PDF was written in full: a file of the row's name that is a complete
\* print of the row's URL was written before the row.
C4_RowsOfWrittenPosts ==
  \A r \in LedgerRows(ledger) : Len(r) = 5 => << r[5], r[4] >> \in written

\* C4 with the devtools saver alone: the row follows the write of its file.
C4_DevtoolsRowsOfWrittenPosts == method = "devtools" => C4_RowsOfWrittenPosts

\* C5: an item whose save raises gets no ledger row; the items are attempted in
\* the order of the filtered list; and a run that reaches its end has attempted
\* every item of the list, whatever raised on the way.
C5_FailureIsolated ==
  /\ \A j \in 1..Len(outcome) : outcome[j] = "failed" => Count(appendLog, j) = 0
  /\ Len(navigated) <= Len(url_list)
  /\ \A j \in 1..Len(navigated) : navigated[j].url = url_list[j]
  /\ pc \in {"loop", "done"} => Len(outcome) = Len(navigated)
  /\ (pc = "done" /\ mode = "urls") => Len(navigated) = Len(url_list)
  /\ (pc = "loop" /\ i <= Len(url_list)) => ENABLED Navigate

\* a run has ended whose first item raised and whose second item was saved
C5_Witness ==
  /\ pc = "done" /\ Len(outcome) = 2
  /\ outcome[1] = "failed" /\ outcome[2] = "saved" /\ appendLog = << 2 >>

\* the login word is in the title
LoginWord(t) == Has(t, "Login")

\* C6: an item whose page has the login word in its title, with or without the
\* platform name, never gets past the login test: no file is opened and no print
\* asked for it, no row is appended for it, and its key is not added to done_keys.
C6_LoginPageRejected ==
  \A j \in 1..Len(navigated) :
    LoginWord(navigated[j].title) =>
      /\ j \notin wrote
      /\ Count(appendLog, j) = 0
      /\ KeyOf(navigated[j].url) \notin (done_keys \ loaded)
      /\ j <= Len(outcome) => outcome[j] \in {"skipped", "failed"}
      /\ j > Len(outcome) => pc = "check"

\* a run has ended that met a page titled with the login word alone and skipped
\* it, and saved its other item
C6_Witness ==
  /\ pc = "done" /\ Len(outcome) = 2
  /\ \E j \in 1..2 :
       /\ LoginWord(navigated[j].title) /\ ~Has(navigated[j].title, "Naver")
       /\ outcome[j] = "skipped"
       /\ outcome[3 - j] = "saved"

\* C7: no two items a run renders have the same canonical key or the same text;
\* the item rendered for a key is the first line of the URL file with that key;
\* and the items are rendered in the order of the URL file.
C7_NoKeyRenderedTwice ==
  /\ \A a, b \in 1..Len(navigated) :
       a < b =>
         /\ navigated[a].url # navigated[b].url
         /\ KeyOf(navigated[a].url) # None
              => KeyOf(navigated[a].url) # KeyOf(navigated[b].url)
         /\ FirstLine(navigated[a].url) < FirstLine(navigated[b].url)
  /\ \A a \in 1..Len(navigated) :
       LET u == navigated[a].url IN
       /\ \E n \in 1..Len(input) : input[n] = u
       /\ KeyOf(u) # None =>
            \A m \in 1..(FirstLine(u) - 1) : KeyOf(input[m]) # KeyOf(u)

\* a run has ended over two different URLs of one post that the ledger does not
\* hold: one item was rendered, the first
C7_Witness ==
  /\ pc = "done" /\ Len(input) = 2 /\ input[1] # input[2]
  /\ KeyOf(input[1]) # None /\ KeyOf(input[1]) = KeyOf(input[2])
  /\ KeyOf(input[1]) \notin loaded
  /\ Len(navigated) = 1 /\ navigated[1].url = input[1]

\* C8: a URL whose canonical key is among the keys loaded from the ledger when
\* the run started is not an item of the run: the browser is never sent to it and
\* no file is written for it.
C8_LedgerKeysNotRendered ==
  /\ \A j \in 1..Len(navigated) : KeyOf(navigated[j].url) \notin loaded
  /\ \A j \in 1..Len(url_list) : KeyOf(url_list[j]) \notin loaded
  /\ \A j \in wrote : j \in 1..Len(url_list)
  /\ \A n \in 1..Len(out_dir) :
       KeyOf(out_dir[n].page) \in loaded =>
         \E w \in Worlds : \E m \in 1..Len(w.out_dir) : w.out_dir[m].page = out_dir[n].page

\* a run has ended whose URL file named a post of the ledger and then a post not
\* in it: the second alone was rendered, and saved
C8_Witness ==
  /\ pc = "done" /\ Len(input) = 2
  /\ KeyOf(input[1]) \in loaded /\ KeyOf(input[2]) \notin loaded
  /\ Len(navigated) = 1 /\ navigated[1].url = input[2] /\ outcome = << "saved" >>

\* C9: a run started for a category has, when it ends, rendered every post the
\* enumerator returns for the category whose key the ledger did not hold.
C9_CategoryPass ==
  (mode = "category" /\ pc = "done") =>
    LET urls == enumerate_category_via_api(listing) IN
    \A n \in 1..Len(urls) :
      KeyOf(urls[n]) \notin loaded =>
        \E j \in 1..Len(navigated) : navigated[j].url = urls[n]

\* the identifiers of the pages, one after the other
RECURSIVE Flatten(_)
Flatten(pages) == IF pages = << >> THEN << >> ELSE Head(pages) \o Flatten(Tail(pages))

\* the identifiers of a list in the order of their first places, None left out
FirstPlaces(ids) ==
  LET keep == {n \in 1..Len(ids) :
                 ids[n] # None /\ \A m \in 1..(n - 1) : ids[m] # ids[n]}
      nth[k \in 0..Cardinality(keep)] ==
        IF k = 0 THEN 0 ELSE Min({n \in keep : n > nth[k - 1]})
  IN  [k \in 1..Cardinality(keep) |-> ids[nth[k]]]

\* the view URLs of the identifiers of the pages, in order and without repeats
ExpectedUrls(pages) ==
  LET ids == FirstPlaces(Flatten(pages)) IN
  [k \in 1..Len(ids) |-> ViewUrl(Owner, ids[k])]

\* every page holds an identifier that no page before it holds
EveryPageAddsNew(pages) ==
  \A n \in 1..Len(pages) :
    \E k \in 1..Len(pages[n]) :
      /\ pages[n][k] # None
      /\ \A m \in 1..(n - 1) : \A h \in 1..Len(pages[m]) : pages[m][h] # pages[n][k]

\* C10 as the spec states it: for a listing of N pages of posts and then empty
\* pages, the enumerator returns the identifiers of the N pages in order and
\* without repeats, as view URLs, and its last request is for page N + 1.
C10_ExhaustionResult ==
  (e_pc = "returned" /\ ~listing.repeat) =>
    /\ e_out = ExpectedUrls(listing.pages)
    /\ e_reqs[Len(e_reqs)] = Len(listing.pages) + 1

\* C10, amended: the same, for a listing every page of which holds at least one
\* identifier that no earlier page holds.
C10_ExhaustionResultWhenPagesAddNew ==
  (e_pc = "returned" /\ ~listing.repeat /\ EveryPageAddsNew(listing.pages)) =>
    /\ e_out = ExpectedUrls(listing.pages)
    /\ e_reqs[Len(e_reqs)] = Len(listing.pages) + 1
    /\ \A n \in 1..Len(e_reqs) : e_reqs[n] \in 1..(Len(listing.pages) + 1)

\* the enumerator has returned from a listing of two pages, the second of which
\* repeats an identifier of the first and adds one
C10_Witness ==
  /\ e_pc = "returned" /\ ~listing.repeat
  /\ listing.pages = << << K1 >>, << K1, K2 >> >>
  /\ e_out = << ViewUrl(Owner, K1), ViewUrl(Owner, K2) >>
  /\ e_reqs[Len(e_reqs)] = 3

\* The steps of the enumerator return what the function returns.
EnumStepsAgree ==
  e_pc = "returned" => e_out = enumerate_category_via_api(listing)

\* the identifiers the pages before page n hold
SeenBefore(l, n) ==
  UNION {{PostList(l, m)[k] : k \in 1..Len(PostList(l, m))} : m \in 1..(n - 1)}
    \ {None}

\* the number of identifiers page n holds that no page before it holds
Added(l, n) ==
  Cardinality(({PostList(l, n)[k] : k \in 1..Len(PostList(l, n))} \ {None})
                \ SeenBefore(l, n))

\* the listing never serves an empty page: after its last page, that page again
Repeating == listing.repeat /\ listing.pages # << >>

EnumDone == e_pc \in {"returned", "raised"}

\* C11 as the spec states it: against a listing that serves its last page again
\* for every later page number, the enumerator has stopped after two pages one
\* after the other that added no new identifier.
C11_StopsAfterTwoIdlePages ==
  (e_pc = "returned" /\ Repeating) =>
    LET last == e_reqs[Len(e_reqs)] IN
    last >= 2 /\ Added(listing, last) = 0 /\ Added(listing, last - 1) = 0

\* C11, amended: against such a listing the enumerator ends; it never asks for a
\* page after page N + 1, and when it returns, the last page it asked for is the
\* first page that added no new identifier and the list holds the identifiers of
\* the pages before it.
C11_StopsAtFirstIdlePage ==
  /\ [](Repeating =>
          /\ \A n \in 1..Len(e_reqs) : e_reqs[n] <= Len(listing.pages) + 1
          /\ e_pc = "returned" =>
               LET last == e_reqs[Len(e_reqs)] IN
               /\ Added(listing, last) = 0
               /\ \A m \in 1..(last - 1) : Added(listing, m) > 0
               /\ e_out = ExpectedUrls([m \in 1..(last - 1) |-> PostList(listing, m)]))
  /\ (Repeating => <>EnumDone)

\* the enumerator has returned from a listing of two pages that serves the
\* second page again as page three
C11_Witness ==
  /\ e_pc = "returned" /\ listing.repeat
  /\ listing.pages = << << K1 >>, << K2, K3 >> >>
  /\ e_reqs[Len(e_reqs)] = 3
  /\ e_out = << ViewUrl(Owner, K1), ViewUrl(Owner, K2), ViewUrl(Owner, K3) >>

\* C12: after a body that did not decode, the next step is one more request for
\* the same page, with the list and the seen set as they were; it ends in the
\* page's body being read or in the error leaving the function.  No page is
\* asked for more than twice, a list that is returned is the list of an
\* enumeration without decode failures, and nothing follows a raised error.
C12_DecodeRetry ==
  [][/\ e_pc = "retry" =>
          /\ e_reqs' = Append(e_reqs, e_page)
          /\ e_page' = e_page /\ e_out' = e_out /\ e_seen' = e_seen
          /\ e_pc' \in {"body", "raised"}
     /\ e_pc' = "retry" =>
          /\ e_pc = "get" /\ e_reqs' = Append(e_reqs, e_page)
          /\ e_page' = e_page /\ e_out' = e_out /\ e_seen' = e_seen
     /\ Count(e_reqs', e_page') <= 2
     /\ e_pc' = "returned" => e_out' = enumerate_category_via_api(listing)
     /\ e_pc \notin {"raised", "returned"}]_vars

\* the enumerator has returned the posts of two pages after asking twice for
\* the first page
C12_Witness ==
  /\ e_pc = "returned"
  /\ Len(e_reqs) >= 3 /\ SubSeq(e_reqs, 1, 3) = << 1, 1, 2 >>
  /\ listing.pages = << << K1 >>, << K2, K3 >> >>
  /\ e_out = << ViewUrl(Owner, K1), ViewUrl(Owner, K2), ViewUrl(Owner, K3) >>

\* the error of a second body that did not decode has left the function
C12_RaisedAfterRetry ==
  e_pc = "raised" /\ e_reqs = << 1, 2, 2 >> /\ e_out = << ViewUrl(Owner, K1) >>

\* C13 as the spec states it: two addresses of one post, whatever the order of
\* their parameters, their host and the place of the log number (logNo parameter
\* or last segment of the path), have the same canonical key.
C13_SameIdSameKey ==
  f_pc = "done" => f_res[1] = f_res[2]

\* The addresses that end with a log number of six or more digits, or have it as
\* logNo parameter, agree, and the key is the log number.
C13_LongIdsAgree ==
  (f_pc = "done" /\ Len(f_arg[3]) >= MinTailDigits
     /\ ~Has(f_arg[1], "navType=") /\ ~Has(f_arg[2], "navType="))
    => f_res[1] = f_arg[3] /\ f_res[2] = f_arg[3]

\* the keys of the view URL and of the mobile path URL of post K1 were computed
C13_Witness ==
  /\ f_pc = "done"
  /\ f_arg = << ViewUrl(Owner, K1), MobileUrl(Owner, K1), K1 >>
  /\ f_res = << K1, K1 >>

\* the place of a source in the order of the cascade
CascadePlace(src) == CHOOSE n \in 1..Len(CascadeOrder) : CascadeOrder[n] = src

\* the sources the cascade has for a URL
Applicable(u) ==
  {"span", "meta", "static"} \cup (IF HasMobile(u) THEN {"mobile", "static_m"} ELSE {})

CascadeInOrder ==
  LET c == f_res.consulted IN
  /\ \A k \in 1..Len(c) : c[k].src \in Applicable(f_arg.url)
  /\ \A k \in 1..(Len(c) - 1) :
       /\ CascadePlace(c[k].src) < CascadePlace(c[k + 1].src)
       /\ c[k].got = None
       \* no applicable source is passed over
       /\ \A s \in Applicable(f_arg.url) :
            ~(CascadePlace(c[k].src) < CascadePlace(s)
                /\ CascadePlace(s) < CascadePlace(c[k + 1].src))
  /\ c # << >> => c[1].src = "span"

CascadeResult ==
  LET c == f_res.consulted
      failed == \A k \in 1..Len(c) : c[k].got = None
  IN  f_pc = "done" =>
        /\ f_res.date_norm # None
        /\ f_res.used_upload_today <=> failed
        /\ failed => /\ f_res.date_norm = f_arg.today
                     /\ {c[k].src : k \in 1..Len(c)} = Applicable(f_arg.url)
        /\ ~failed => f_res.date_norm = c[Len(c)].got

\* C14: the sources of a date are consulted in the order span, metadata scan,
\* mobile page, static fetch, static fetch of the mobile URL (the mobile ones
\* when the URL gives a blog id and a log number); after a source that gave a
\* date no source is consulted; the function returns, whatever the sources
\* raise, a date, which is today's date with the flag set exactly when every
\* source failed, and else the date of the last source consulted.
C14_CascadeOrder ==
  /\ [](CascadeInOrder /\ CascadeResult)
  /\ <>(f_pc = "done")

\* the cascade has returned the date of the static fetch after the span, the
\* scan and the mobile page gave none
C14_Witness ==
  /\ f_pc = "done" /\ ~f_res.used_upload_today
  /\ Len(f_res.consulted) = 4 /\ f_res.consulted[4].src = "static"
  /\ f_res.date_norm = << "2", "0", "2", "4", "-", "1", "2", "-", "3", "1" >>

\* the cascade has returned today's date after all five sources failed
C14_WitnessToday ==
  /\ f_pc = "done" /\ f_res.used_upload_today /\ f_res.date_norm = f_arg.today
  /\ Len(f_res.consulted) = 5

\* the ledger row of a URL, for a URL with one row
RowOf(u) == CHOOSE r \in LedgerRows(ledger) : Len(r) = 5 /\ r[5] = u

\* a file of the directory: this name, written in full, a print of this URL
HoldsPrint(name, u) ==
  \E n \in 1..Len(out_dir) :
    out_dir[n].name = name /\ out_dir[n].page = u /\ out_dir[n].complete

\* two items of this run, the first before the second, both recorded, with
\* different post keys and the same date and title in their rows
Collide(j, k) ==
  /\ j < k /\ Count(appendLog, j) = 1 /\ Count(appendLog, k) = 1
  /\ KeyOf(url_list[j]) # None /\ KeyOf(url_list[k]) # None
  /\ KeyOf(url_list[j]) # KeyOf(url_list[k])
  /\ RowOf(url_list[j])[2] = RowOf(url_list[k])[2]
  /\ safe_filename(RowOf(url_list[j])[3]) = safe_filename(RowOf(url_list[k])[3])

\* C15: when two posts saved one after the other in a run have the same date and
\* title and different post keys, the files named in their rows are two files,
\* each in the directory as the complete print of its own post.
C15_CollisionKeepsBoth ==
  \A j \in 1..Len(url_list), k \in 1..Len(url_list) :
    Collide(j, k) =>
      LET rj == RowOf(url_list[j])
          rk == RowOf(url_list[k])
      IN  /\ rj[4] # rk[4]
          /\ HoldsPrint(rj[4], url_list[j])
          /\ HoldsPrint(rk[4], url_list[k])

\* C15 with the devtools saver alone
C15_DevtoolsCollisionKeepsBoth == method = "devtools" => C15_CollisionKeepsBoth

\* two posts of one date and title were saved by the devtools saver
C15_DevtoolsCollision ==
  /\ method = "devtools"
  /\ \E j \in 1..Len(url_list), k \in 1..Len(url_list) : Collide(j, k)

\* the places of text where the first pattern matches a date in the range
PlausibleYmdPlaces(text, curr) ==
  {n \in 1..Len(text) :
     /\ Ymd0At(text, n)
     /\ LET g == Ymd0Groups(text, n) IN
        is_plausible_ymd(ToInt(g[1]), ToInt(g[2]), ToInt(g[3]), curr)}

\* the date at a place of the first pattern, as YYYY-MM-DD
YmdValue(text, n) ==
  LET g == Ymd0Groups(text, n) IN FormatYmd(ToInt(g[1]), ToInt(g[2]), ToInt(g[3]), "-")

HasMd(text) == \E n \in 1..Len(text) : MdAt(text, n)

\* C16 as the spec states it: for a text that holds a date of the form
\* YYYY-MM-DD (a year, a month and a day in the range) and a fragment M.D.
\* without year, whatever the fallback year, normalize_date returns a
\* YYYY-MM-DD date of the text.
C16_FullDateBeforeFallbackYear ==
  (f_pc = "done" /\ f_arg.ymd = << >> /\ f_arg.fallback_year # 0 /\ HasMd(f_arg.text)
     /\ PlausibleYmdPlaces(f_arg.text, f_arg.curr) # {})
    => \E n \in PlausibleYmdPlaces(f_arg.text, f_arg.curr) : f_res = YmdValue(f_arg.text, n)

\* When the leftmost match of the first pattern is a date in the range,
\* normalize_date returns it, whatever the fallback year.
C16_LeftmostFullDate ==
  (f_pc = "done" /\ f_arg.ymd = << >>
     /\ Ymd0Place(f_arg.text) \in PlausibleYmdPlaces(f_arg.text, f_arg.curr))
    => f_res = YmdValue(f_arg.text, Ymd0Place(f_arg.text))

\* normalize_date has returned the full date of a text that also holds a date
\* without year, called with a fallback year
C16_Witness ==
  /\ f_pc = "done" /\ f_arg.fallback_year = 2024
  /\ f_arg.text = << "9", ".", "7", ".", SP, "2", "0", "2", "5", "-", "0", "9", "-", "0", "7" >>
  /\ f_res = << "2", "0", "2", "5", "-", "0", "9", "-", "0", "7" >>

\* a string YYYY-MM-DD whose year, month and day are in the range
IsPlausibleIso(s, curr) ==
  /\ Len(s) = 10 /\ s[5] = "-" /\ s[8] = "-"
  /\ \A n \in {1, 2, 3, 4, 6, 7, 9, 10} : s[n] \in Digits
  /\ 2005 <= ToInt(SubSeq(s, 1, 4)) /\ ToInt(SubSeq(s, 1, 4)) <= curr + 1
  /\ 1 <= ToInt(SubSeq(s, 6, 7)) /\ ToInt(SubSeq(s, 6, 7)) <= 12
  /\ 1 <= ToInt(SubSeq(s, 9, 10)) /\ ToInt(SubSeq(s, 9, 10)) <= 31

OutOfRangeTexts ==
  { << "1", "8", "9", "9", "-", "0", "1", "-", "0", "1" >>,
    << "2", "9", "9", "9", "-", "0", "1", "-", "0", "1" >> }

\* C17: whatever the text and the fallback year, normalize_date returns nothing
\* or a date YYYY-MM-DD with the year from 2005 to the year after the clock's,
\* the month from 1 to 12 and the day from 1 to 31; for 1899-01-01 and for
\* 2999-01-01 it returns nothing.
C17_OnlyPlausibleDates ==
  f_pc = "done" =>
    /\ f_res = None \/ IsPlausibleIso(f_res, f_arg.curr)
    /\ f_arg.text \in OutOfRangeTexts => f_res = None

\* normalize_date has returned nothing for 1899-01-01, called with a fallback year
C17_Witness ==
  /\ f_pc = "done" /\ f_arg.fallback_year = 2024
  /\ f_arg.text = << "1", "8", "9", "9", "-", "0", "1", "-", "0", "1" >>
  /\ f_res = None

\* normalize_date has returned the date of a text that starts with a date of
\* the year 2999
C17_WitnessLaterPattern ==
  /\ f_pc = "done" /\ f_res # None
  /\ Len(f_arg.text) > 10 /\ SubSeq(f_arg.text, 1, 10) \in OutOfRangeTexts

\* C18: for a year from 2005 to the year after the clock's, a month from 1 to 12
\* and a day from 1 to 31, normalize_date of the date written YYYY.MM.DD is the
\* same date written YYYY-MM-DD.
C18_RoundTrip ==
  (f_pc = "done" /\ f_arg.ymd # << >>) =>
    /\ f_arg.text = FormatYmd(f_arg.ymd[1], f_arg.ymd[2], f_arg.ymd[3], ".")
    /\ f_res = FormatYmd(f_arg.ymd[1], f_arg.ymd[2], f_arg.ymd[3], "-")
    /\ << ToInt(SubSeq(f_res, 1, 4)), ToInt(SubSeq(f_res, 6, 7)), ToInt(SubSeq(f_res, 9, 10)) >>
         = f_arg.ymd

\* normalize_date has returned the last day of the last year of the range,
\* written with dots
C18_Witness ==
  /\ f_pc = "done" /\ f_arg.ymd = << f_arg.curr + 1, 12, 31 >>
  /\ f_arg.text = << "2", "0", "2", "7", ".", "1", "2", ".", "3", "1" >>
  /\ f_res = << "2", "0", "2", "7", "-", "1", "2", "-", "3", "1" >>

\* normalize_date has returned a date of one-digit month and day, written with
\* dots and zeros
C18_WitnessPadded ==
  /\ f_pc = "done" /\ f_arg.ymd = << 2005, 1, 1 >>
  /\ f_res = << "2", "0", "0", "5", "-", "0", "1", "-", "0", "1" >>

\* the titles of the rows a run has appended hold no tab and no line break
PlainTitles == \A k \in 1..Len(f_res.rows) : ~Has(f_res.rows[k][3], TAB) /\ ~Has(f_res.rows[k][3], NL)

\* C19 as the spec states it: the keys the next run loads from the ledger are
\* the keys the run held in memory when it ended, whatever the titles, file
\* names and URLs of the rows it appended.
C19_ReloadedKeysAreDoneKeys ==
  f_pc = "done" => f_res.reloaded = f_res.done_keys

\* The same, for rows whose titles hold no tab and no line break.
C19_ReloadedKeysOfPlainTitles ==
  (f_pc = "done" /\ PlainTitles) => f_res.reloaded = f_res.done_keys

\* a run has appended two rows to a ledger with a row, and the ledger was loaded again
C19_TwoRowsReloaded ==
  /\ f_pc = "done" /\ PlainTitles /\ Len(f_res.rows) = 2
  /\ f_arg.text # << >> /\ Cardinality(f_res.reloaded) = 2

\* what the run has added to the ledger
AppendedText == SubSeq(f_res.text, Len(f_arg.text) + 1, Len(f_res.text))

RowsAsAppended ==
  LET lines == SplitLines(AppendedText) IN
  /\ IsPrefix(f_arg.text, f_res.text)
  /\ AppendedText # << >> => AppendedText[Len(AppendedText)] = NL
  /\ Len(lines) = Len(f_res.rows)
  /\ \A k \in 1..Len(lines) :
       /\ Len(Split(lines[k], TAB)) = 5
       /\ Split(lines[k], TAB) = f_res.rows[k]

\* C20 as the spec states it: what a run has added to the ledger is one line
\* for every append, in order, and each line is the five fields post key,
\* date, title, file name and URL of its append, with tabs between them,
\* whatever title clean_title returned.
C20_RowFormat == f_pc \in {"record", "done"} => RowsAsAppended

\* The same, for titles that hold no tab and no line break.
C20_RowFormatOfPlainTitles ==
  (f_pc \in {"record", "done"} /\ PlainTitles) => RowsAsAppended

\* a run has appended the rows of a post with a key and of a page without one
C20_TwoPlainRows ==
  /\ f_pc = "done" /\ PlainTitles /\ Len(f_res.rows) = 2
  /\ f_res.rows[1][1] = K1 /\ f_res.rows[2][1] = None

\* the URLs of the URL file that give no canonical key
Keyless == {input[n] : n \in 1..Len(input)} \ {u \in UrlLines : KeyOf(u) # None}

\* the keys of the items of this run that were recorded
RecordedKeys == {KeyOf(url_list[appendLog[n]]) : n \in 1..Len(appendLog)} \ {None}

\* C21: in every run, whatever the ledger holds, a URL of the URL file that
\* gives no canonical key is an item of the run, once; a run that goes through
\* its list sends the browser to it; and the processed set holds the keys
\* loaded from the ledger and the keys of the recorded items, nothing for a
\* URL without key.
C21_KeylessAlwaysNew ==
  (mode = "urls" /\ pc \notin {"start", "dead", "idle"}) =>
    /\ \A u \in Keyless :
         /\ Count(url_list, u) = 1
         /\ pc = "done" => \E j \in 1..Len(navigated) : navigated[j].url = u
    /\ None \notin done_keys
    /\ done_keys = loaded \cup RecordedKeys

\* a second run has rendered and recorded again the URL without key that the
\* first run had recorded in the ledger, and holds no key for it
C21_Witness ==
  /\ mode = "urls" /\ run = 2 /\ pc = "done" /\ prev = "clean"
  /\ input = << HomeUrl >> /\ outcome = << "saved" >> /\ appendLog = << 1 >>
  /\ Cardinality({r \in LedgerRows(ledger) : r[Len(r)] = HomeUrl}) >= 1
  /\ done_keys = loaded

\* the cascade has loaded the mobile page
MobileLoaded ==
  \E k \in 1..Len(f_res.consulted) : f_res.consulted[k].src = "mobile"

\* C22: when save_post_as_pdf_devtools issues the print command, the page the
\* browser shows is the page of the requested URL, whichever date sources
\* were consulted.
C22_PrintsRequestedPage ==
  f_pc = "printed" => f_res.printed = f_arg.url

\* The page printed is the page of the requested URL when the cascade did not
\* go to the mobile page, and else the page the cascade went to last.
C22_PrintsRequestedPageUnlessMobile ==
  f_pc = "printed" =>
    /\ f_res.printed = f_res.at
    /\ ~MobileLoaded => f_res.printed = f_arg.url
    /\ f_res.printed # f_arg.url =>
         f_res.printed = MobileUrl(parse_blog_id_logno(f_arg.url)[1],
                                   parse_blog_id_logno(f_arg.url)[2])

\* the print was made of the requested page, the span having given the date
C22_PrintedAfterSpan ==
  /\ f_pc = "printed" /\ Len(f_res.consulted) = 1
  /\ f_arg.url = ViewUrl(Owner, K1) /\ f_res.printed = f_arg.url


\* the files of dir that are prints of other pages than the page of url
OtherPrints(dir, url) == {dir[n] : n \in {m \in 1..Len(dir) : dir[m].page # url}}

\* C23: in kiosk mode the file that save_post_as_pdf_kiosk moves to the new
\* post's name is the file made by the print it has just asked for, and the
\* PDF of no other post is renamed or replaced, however the browser's write
\* falls among the passes of the polling loop.
C23_KioskMovesCurrentPrint ==
  [][(method = "kiosk" /\ pc = "poll" /\ pc' = "saved" /\ out_dir # << >>) =>
       /\ out_dir[Len(out_dir)].page = page.url
       /\ page \notin pending
       /\ \A f \in OtherPrints(out_dir, page.url) :
            \E n \in 1..Len(out_dir') : out_dir'[n] = f]_vars

\* The polling loop takes the newest PDF of the directory, whichever print it is.
C23_KioskMovesNewestFile ==
  [][(method = "kiosk" /\ pc = "poll" /\ pc' = "saved" /\ out_dir' # out_dir) =>
       LET latest == out_dir[Len(out_dir)] IN
       /\ latest.name # fpath
       /\ out_dir' = Rename(out_dir, latest.name, fpath)]_vars

\* a pass of the polling loop has given the PDF of an earlier post the new
\* post's name while the browser had not saved the new print
C23_MovedEarlierPost ==
  /\ method = "kiosk" /\ pc = "saved" /\ page \in pending
  /\ \E n \in 1..Len(out_dir) : out_dir[n].name = fpath /\ out_dir[n].page # page.url

=============================================================================
